---- MODULE Spec2Model ----
(***************************************************************************)
(* Model of the cleaning-app backend's service-provider core:              *)
(*   - onUserCreated              (functions/userTriggers.ts)              *)
(*   - updateServiceProviderSettings, searchServiceProviders               *)
(*   - the geohash utilities they call                                     *)
(*                                                                         *)
(* Numbers.  Latitudes and longitudes are integers in units of 1e-4        *)
(* degree (6.5244 deg = 65244).  Radii are integers in metres.  Distances  *)
(* (kilometres as floating point in the code) are integers in centimetres. *)
(* A JavaScript `undefined` number is the value Undefined, and an          *)
(* arithmetic result that is NaN in the code is the value NaN.             *)
(*                                                                         *)
(* Strings.  A geohash is the sequence of the base-32 indices of its       *)
(* characters; the alphabet "0123456789bcdefghjkmnpqrstuvwxyz" is in       *)
(* ascending character order, so comparing indices compares characters.    *)
(*                                                                         *)
(* Optional values.  An absent value is None (the empty sequence) and a    *)
(* present value v is Some(v).                                             *)
(***************************************************************************)
EXTENDS Integers, Sequences, FiniteSets, TLC

(***************************************************************************)
(* Bounds of the model                                                     *)
(***************************************************************************)
\* number of user identities
NumUsers == 2
\* number of accepted settings updates in one behaviour
MaxUpdates == 2

UserIds == 1..NumUsers

(***************************************************************************)
(* Values                                                                  *)
(***************************************************************************)
None == <<>>

Some(v) == <<v>>

Undefined == 99999999

NaN == -1

Categories == {"classic-cleaning", "deep-cleaning", "end-of-tenancy"}

\* the alphabet of ngeohash has 32 characters, indices 0..31
Base32Size == 32

\* "~" sorts after every character of the geohash alphabet
Tilde == Base32Size

(***************************************************************************)
(* Geohash utilities                                                       *)
(***************************************************************************)
\* width of the longitude and latitude ranges, in 1e-4 degree
LonSpan == 3600000

LatSpan == 1800000

\* The bisection of ngeohash.encode on one axis.  x is the offset of the
\* coordinate from the lower end of the current interval, scaled so that the
\* interval always has width W: "coordinate > mid" is 2*x > W, and the
\* interval is halved by doubling the offset.  An offset at or below 0, or
\* above W, keeps its bit for ever, as a coordinate outside the range does.
RECURSIVE BisectBits(_, _, _)
BisectBits(x, W, n) ==
    IF n = 0 THEN <<>>
    ELSE LET b == 2 * x > W
             nx == IF x <= 0 \/ x > W THEN x
                   ELSE IF b THEN 2 * x - W ELSE 2 * x
         IN  <<IF b THEN 1 ELSE 0>> \o BisectBits(nx, W, n - 1)

\* an undefined coordinate compares false with every midpoint: all bits 0
AxisBits(v, half, n) ==
    IF v = Undefined THEN [i \in 1..n |-> 0]
    ELSE BisectBits(v + half, 2 * half, n)

\* ngeohash.encode: bits alternate longitude, latitude, starting with
\* longitude; five bits make one character
generateGeohash(latitude, longitude, precision) ==
    LET nbits == 5 * precision
        lonBits == AxisBits(longitude, LonSpan \div 2, (nbits + 1) \div 2)
        latBits == AxisBits(latitude, LatSpan \div 2, nbits \div 2)
        bit(k) == IF k % 2 = 0 THEN lonBits[(k \div 2) + 1]
                  ELSE latBits[((k - 1) \div 2) + 1]
        char(i) == LET k == 5 * (i - 1)
                   IN  16 * bit(k) + 8 * bit(k + 1) + 4 * bit(k + 2)
                         + 2 * bit(k + 3) + bit(k + 4)
    IN  [i \in 1..precision |-> char(i)]

\* Values of the Haversine formula (Earth radius 6371 km) at the coordinates
\* of the model, in centimetres
HaversineCm ==
    <<65244, 33792, 65244, 33792>> :> 0 @@ <<65244, 33792, 65514, 33792>> :> 300226 @@
    <<65244, 33792, 66144, 33792>> :> 1000754 @@ <<65244, 33792, 90765, 73986>> :> 52589795 @@
    <<65244, 33792, 56037, -1870>> :> 40739274 @@ <<65244, 33792, 0, 0>> :> 81663857 @@
    <<65244, 33792, -500000, -1400000>> :> 1410413247 @@ <<65244, 33792, 0, 33792>> :> 72548018 @@
    <<65244, 33792, 65244, 0>> :> 37331567 @@ <<65514, 33792, 65244, 33792>> :> 300226 @@
    <<65514, 33792, 65514, 33792>> :> 0 @@ <<65514, 33792, 66144, 33792>> :> 700528 @@
    <<65514, 33792, 90765, 73986>> :> 52427259 @@ <<65514, 33792, 56037, -1870>> :> 40814775 @@
    <<65514, 33792, 0, 0>> :> 81930376 @@ <<65514, 33792, -500000, -1400000>> :> 1410676759 @@
    <<65514, 33792, 0, 33792>> :> 72848244 @@ <<65514, 33792, 65244, 0>> :> 37331767 @@
    <<66144, 33792, 65244, 33792>> :> 1000754 @@ <<66144, 33792, 65514, 33792>> :> 700528 @@
    <<66144, 33792, 66144, 33792>> :> 0 @@ <<66144, 33792, 90765, 73986>> :> 52052757 @@
    <<66144, 33792, 56037, -1870>> :> 40998942 @@ <<66144, 33792, 0, 0>> :> 82553150 @@
    <<66144, 33792, -500000, -1400000>> :> 1411291527 @@ <<66144, 33792, 0, 33792>> :> 73548772 @@
    <<66144, 33792, 65244, 0>> :> 37341610 @@ <<90765, 73986, 65244, 33792>> :> 52589795 @@
    <<90765, 73986, 65514, 33792>> :> 52427259 @@ <<90765, 73986, 66144, 33792>> :> 52052757 @@
    <<90765, 73986, 90765, 73986>> :> 0 @@ <<90765, 73986, 56037, -1870>> :> 92126127 @@
    <<90765, 73986, 0, 0>> :> 129990132 @@ <<90765, 73986, -500000, -1400000>> :> 1456244965 @@
    <<90765, 73986, 0, 33792>> :> 110303470 @@ <<90765, 73986, 65244, 0>> :> 86298574 @@
    <<56037, -1870, 65244, 33792>> :> 40739274 @@ <<56037, -1870, 65514, 33792>> :> 40814775 @@
    <<56037, -1870, 66144, 33792>> :> 40998942 @@ <<56037, -1870, 90765, 73986>> :> 92126127 @@
    <<56037, -1870, 56037, -1870>> :> 0 @@ <<56037, -1870, 0, 0>> :> 62344875 @@
    <<56037, -1870, -500000, -1400000>> :> 1382139114 @@ <<56037, -1870, 0, 33792>> :> 73824262 @@
    <<56037, -1870, 65244, 0>> :> 10444433 @@ <<0, 0, 65244, 33792>> :> 81663857 @@
    <<0, 0, 65514, 33792>> :> 81930376 @@ <<0, 0, 66144, 33792>> :> 82553150 @@
    <<0, 0, 90765, 73986>> :> 129990132 @@ <<0, 0, 56037, -1870>> :> 62344875 @@
    <<0, 0, 0, 0>> :> 0 @@ <<0, 0, -500000, -1400000>> :> 1328764965 @@
    <<0, 0, 0, 33792>> :> 37574990 @@ <<0, 0, 65244, 0>> :> 72548018 @@
    <<-500000, -1400000, 65244, 33792>> :> 1410413247 @@ <<-500000, -1400000, 65514, 33792>> :> 1410676759 @@
    <<-500000, -1400000, 66144, 33792>> :> 1411291527 @@ <<-500000, -1400000, 90765, 73986>> :> 1456244965 @@
    <<-500000, -1400000, 56037, -1870>> :> 1382139114 @@ <<-500000, -1400000, 0, 0>> :> 1328764965 @@
    <<-500000, -1400000, -500000, -1400000>> :> 0 @@ <<-500000, -1400000, 0, 33792>> :> 1346100902 @@
    <<-500000, -1400000, 65244, 0>> :> 1392024324 @@ <<0, 33792, 65244, 33792>> :> 72548018 @@
    <<0, 33792, 65514, 33792>> :> 72848244 @@ <<0, 33792, 66144, 33792>> :> 73548772 @@
    <<0, 33792, 90765, 73986>> :> 110303470 @@ <<0, 33792, 56037, -1870>> :> 73824262 @@
    <<0, 33792, 0, 0>> :> 37574990 @@ <<0, 33792, -500000, -1400000>> :> 1346100902 @@
    <<0, 33792, 0, 33792>> :> 0 @@ <<0, 33792, 65244, 0>> :> 81663857 @@
    <<65244, 0, 65244, 33792>> :> 37331567 @@ <<65244, 0, 65514, 33792>> :> 37331767 @@
    <<65244, 0, 66144, 33792>> :> 37341610 @@ <<65244, 0, 90765, 73986>> :> 86298574 @@
    <<65244, 0, 56037, -1870>> :> 10444433 @@ <<65244, 0, 0, 0>> :> 72548018 @@
    <<65244, 0, -500000, -1400000>> :> 1392024324 @@ <<65244, 0, 0, 33792>> :> 81663857 @@
    <<65244, 0, 65244, 0>> :> 0

\* distance in km in the code; NaN when a coordinate is undefined
calculateDistance(lat1, lon1, lat2, lon2) ==
    IF Undefined \in {lat1, lon1, lat2, lon2} THEN NaN
    ELSE HaversineCm[<<lat1, lon1, lat2, lon2>>]

\* mutant: the band from 4.9 returns 3
PrecisionWithMistypedBand(radiusMeters, thousandths) ==
    LET r == 1000 * radiusMeters + thousandths
    IN  IF radiusMeters >= 5000 THEN 1
        ELSE IF radiusMeters >= 1250 THEN 2
        ELSE IF radiusMeters >= 156 THEN 3
        ELSE IF radiusMeters >= 39 THEN 4
        ELSE IF r >= 4900 THEN 3
        ELSE IF r >= 1200 THEN 6
        ELSE IF r >= 153 THEN 7
        ELSE IF r >= 38 THEN 8
        ELSE 9

\* The radius is radiusMeters + thousandths / 1000 metres, thousandths in
\* 0..999.  The first four thresholds are whole numbers, so the whole metres
\* decide them; below 39 the radius is compared in thousandths of a metre.
getGeohashPrecisionForRadius(radiusMeters, thousandths) ==
    LET r == 1000 * radiusMeters + thousandths
    IN  IF radiusMeters >= 5000 THEN 1
        ELSE IF radiusMeters >= 1250 THEN 2
        ELSE IF radiusMeters >= 156 THEN 3
        ELSE IF radiusMeters >= 39 THEN 4
        ELSE IF r >= 4900 THEN 5
        ELSE IF r >= 1200 THEN 6
        ELSE IF r >= 153 THEN 7
        ELSE IF r >= 38 THEN 8
        ELSE 9

\* 2^n
RECURSIVE Pow2(_)
Pow2(n) == IF n = 0 THEN 1 ELSE 2 * Pow2(n - 1)

\* number of longitude and of latitude bits of a geohash of p characters
LonBitCount(p) == (5 * p + 1) \div 2

LatBitCount(p) == (5 * p) \div 2

\* bit k (from 0) of a geohash
HashBit(h, k) == (h[(k \div 5) + 1] \div Pow2(4 - (k % 5))) % 2

\* column and row of the cell a geohash names (ngeohash.decode_bbox)
RECURSIVE AxisIndex(_, _, _, _)
AxisIndex(h, first, n, acc) ==
    IF n = 0 THEN acc
    ELSE AxisIndex(h, first + 2, n - 1, 2 * acc + HashBit(h, first))

CellColumn(h) == AxisIndex(h, 0, LonBitCount(Len(h)), 0)

CellRow(h) == AxisIndex(h, 1, LatBitCount(Len(h)), 0)

\* the geohash of the cell in a column and row (ngeohash.encode of its centre)
HashOfCell(col, row, p) ==
    LET nLon == LonBitCount(p)
        nLat == LatBitCount(p)
        bit(k) == IF k % 2 = 0
                  THEN (col \div Pow2(nLon - 1 - (k \div 2))) % 2
                  ELSE (row \div Pow2(nLat - 1 - ((k - 1) \div 2))) % 2
        char(i) == LET k == 5 * (i - 1)
                   IN  16 * bit(k) + 8 * bit(k + 1) + 4 * bit(k + 2)
                         + 2 * bit(k + 3) + bit(k + 4)
    IN  [i \in 1..p |-> char(i)]

\* ngeohash.neighbors: the cell centre moved by one cell in each of the eight
\* directions (n, ne, e, se, s, sw, w, nw), the longitude wrapped round
\* (ensure_valid_lon) and the latitude clamped (ensure_valid_lat), encoded at
\* the same length
getGeohashNeighbors(geohash) ==
    LET p == Len(geohash)
        cols == Pow2(LonBitCount(p))
        rows == Pow2(LatBitCount(p))
        col == CellColumn(geohash)
        row == CellRow(geohash)
        wrap(c) == (c + cols) % cols
        clamp(r) == IF r < 0 THEN 0 ELSE IF r >= rows THEN rows - 1 ELSE r
        nb(dLat, dLon) == HashOfCell(wrap(col + dLon), clamp(row + dLat), p)
    IN  << nb(1, 0), nb(1, 1), nb(0, 1), nb(-1, 1),
           nb(-1, 0), nb(-1, -1), nb(0, -1), nb(1, -1) >>

Max(a, b) == IF a >= b THEN a ELSE b

\* mutant: the neighbours of the shorter prefix are scanned as well
getGeohashPrefixesWithNeighbors(latitude, longitude, radiusMeters) ==
    LET precision   == getGeohashPrecisionForRadius(radiusMeters, 0)
        baseGeohash == generateGeohash(latitude, longitude, precision)
    IN  IF radiusMeters <= 1000
        THEN << baseGeohash >> \o getGeohashNeighbors(baseGeohash)
        ELSE LET prefixGeohash ==
                     generateGeohash(latitude, longitude,
                                     Max(1, precision - 2))
             IN  << prefixGeohash >> \o getGeohashNeighbors(prefixGeohash)

\* mutant: the nine cells are taken at the precision of the large-radius
\* branch
getGeohashPrefixesTwoShorter(latitude, longitude, radiusMeters) ==
    LET precision   == getGeohashPrecisionForRadius(radiusMeters, 0)
        baseGeohash == generateGeohash(latitude, longitude,
                                       Max(1, precision - 2))
    IN  IF radiusMeters <= 1000
        THEN << baseGeohash >> \o getGeohashNeighbors(baseGeohash)
        ELSE << baseGeohash >>

\* mutant: the base geohash is returned along with the shorter prefix
getGeohashPrefixesWithBase(latitude, longitude, radiusMeters) ==
    LET precision == getGeohashPrecisionForRadius(radiusMeters, 0)
        baseGeohash == generateGeohash(latitude, longitude, precision)
    IN  IF radiusMeters <= 1000
        THEN <<baseGeohash>> \o getGeohashNeighbors(baseGeohash)
        ELSE <<baseGeohash,
               generateGeohash(latitude, longitude, Max(1, precision - 2))>>

getGeohashPrefixesForSearch(latitude, longitude, radiusMeters) ==
    LET precision == getGeohashPrecisionForRadius(radiusMeters, 0)
        baseGeohash == generateGeohash(latitude, longitude, precision)
    IN  IF radiusMeters <= 1000
        THEN <<baseGeohash>> \o getGeohashNeighbors(baseGeohash)
        ELSE LET shorterPrecision == Max(1, precision - 2)
             IN  <<generateGeohash(latitude, longitude, shorterPrecision)>>

\* JavaScript string order: a < b
RECURSIVE StrLess(_, _)
StrLess(a, b) ==
    IF b = <<>> THEN FALSE
    ELSE IF a = <<>> THEN TRUE
    ELSE IF Head(a) # Head(b) THEN Head(a) < Head(b)
    ELSE StrLess(Tail(a), Tail(b))

StrLessEq(a, b) == a = b \/ StrLess(a, b)

\* Math.round of a distance in km times 1000: metres, halves rounded up
RoundToMeters(distanceCm) == (distanceCm + 50) \div 100

\* 50km in meters
searchRadius == 50000

\* mutant: the scan radius takes the place of the provider's own radius
WithinScanRadius(distance, radius) ==
    distance # NaN /\ distance <= 100 * searchRadius

\* mutant: the scan radius is a second condition of acceptance
WithinBothRadii(distance, radius) ==
    distance # NaN /\ distance <= 100 * radius /\ distance <= 100 * searchRadius

\* distance <= serviceArea.radius / 1000; a comparison with NaN is false
WithinRadius(distance, radius) ==
    distance # NaN /\ distance <= 100 * radius

(***************************************************************************)
(* Inputs of the model                                                     *)
(***************************************************************************)
Coordinates(lat, lon) == [latitude |-> lat, longitude |-> lon]

Lagos == Coordinates(65244, 33792)

\* 3 km north of Lagos
NearLagos == Coordinates(65514, 33792)

\* 10 km north of Lagos
TenKmFromLagos == Coordinates(66144, 33792)

\* 526 km from Lagos, in the same one-character geohash cell
Abuja == Coordinates(90765, 73986)

SouthPacific == Coordinates(-500000, -1400000)

\* a geohash as a client sends it with a service area
ClientGeohash == <<24, 1, 4, 19, 16, 15, 24>>

ServiceAreaData(coordinates, radius) ==
    [coordinates |-> coordinates, radius |-> radius, geohash |-> ClientGeohash]

WorkingPreferences(serviceArea, workingSchedule) ==
    [serviceArea |-> serviceArea, workingSchedule |-> workingSchedule]

Services(classic, deep, tenancy) ==
    [c \in Categories |->
        CASE c = "classic-cleaning" -> classic
          [] c = "deep-cleaning" -> deep
          [] OTHER -> tenancy]

NoServices == Services(FALSE, FALSE, FALSE)

ClassicOnly == Services(TRUE, FALSE, FALSE)

ClassicAndDeep == Services(TRUE, TRUE, FALSE)

ServiceProviderData(services, workingPreferences) ==
    [services |-> services, extraOptions |-> {"ironing"},
     workingPreferences |-> workingPreferences]

AreaOnly(coordinates, radius) ==
    Some(WorkingPreferences(Some(ServiceAreaData(coordinates, radius)), None))

\* providerData the client of a user sends in its update requests
ProviderDataInputs(userId) ==
    CASE userId = 1 ->
        { ServiceProviderData(NoServices, AreaOnly(Some(Lagos), 5000)),
          ServiceProviderData(ClassicOnly, AreaOnly(Some(Lagos), 5000)),
          ServiceProviderData(ClassicOnly, AreaOnly(Some(Lagos), 0)),
          ServiceProviderData(ClassicOnly, AreaOnly(Some(SouthPacific), 5000)),
          \* no coordinates object
          ServiceProviderData(ClassicOnly, AreaOnly(None, 5000)),
          \* no workingPreferences
          ServiceProviderData(ClassicOnly, None) }
      [] userId = 2 ->
        { ServiceProviderData(ClassicAndDeep, AreaOnly(Some(Lagos), 5000)),
          ServiceProviderData(ClassicOnly, AreaOnly(Some(NearLagos), 5000)),
          ServiceProviderData(ClassicAndDeep, AreaOnly(Some(Abuja), 600000)),
          \* a coordinates object without latitude and longitude
          ServiceProviderData(ClassicOnly,
              AreaOnly(Some(Coordinates(Undefined, Undefined)), 5000)),
          \* a working schedule only
          ServiceProviderData(ClassicAndDeep,
              Some(WorkingPreferences(None, Some("custom")))) }
      [] OTHER ->
        { ServiceProviderData(ClassicOnly, AreaOnly(Some(Lagos), 5000)),
          ServiceProviderData(ClassicAndDeep, AreaOnly(Some(Abuja), 600000)) }

\* request.auth of a callable: absent, or the uid of the caller
AuthInputs == { None } \cup { Some(u) : u \in UserIds }

UpdateServiceProviderRequest(auth, userId, providerData) ==
    [auth |-> auth, userId |-> userId, providerData |-> providerData]

\* update requests: the providerData of every user from that user, and one
\* providerData from every other caller
UpdateRequestInputs ==
    UNION { { UpdateServiceProviderRequest(Some(u), u, d) :
                d \in ProviderDataInputs(u) } : u \in UserIds }
      \cup { UpdateServiceProviderRequest(a, u,
                ServiceProviderData(ClassicOnly, AreaOnly(Some(Lagos), 5000))) :
             a \in AuthInputs, u \in UserIds }

SearchServiceProvidersRequest(serviceType, location) ==
    [serviceType |-> serviceType, location |-> location]

\* request.data of a search; the serviceType "" stands for every falsy one
SearchRequestInputs ==
    { SearchServiceProvidersRequest("classic-cleaning", Some(Lagos)),
      SearchServiceProvidersRequest("deep-cleaning", Some(Lagos)),
      SearchServiceProvidersRequest("classic-cleaning", Some(NearLagos)),
      SearchServiceProvidersRequest("classic-cleaning", Some(TenKmFromLagos)),
      SearchServiceProvidersRequest("classic-cleaning", Some(SouthPacific)),
      SearchServiceProvidersRequest("", Some(Lagos)),
      SearchServiceProvidersRequest("classic-cleaning", None),
      SearchServiceProvidersRequest("classic-cleaning", Some(Coordinates(0, 33792))),
      SearchServiceProvidersRequest("classic-cleaning", Some(Coordinates(65244, 0))),
      SearchServiceProvidersRequest("classic-cleaning",
          Some(Coordinates(Undefined, 33792))),
      SearchServiceProvidersRequest("classic-cleaning",
          Some(Coordinates(65244, Undefined))) }

(***************************************************************************)
(* State                                                                   *)
(***************************************************************************)
\* the offer documents and the appointment documents of the model
OfferIds == {"o1", "o2"}

AppointmentIds == {"a1", "a2", "a3"}

VARIABLES
    users,            \* collection "users": user id -> None or Some(document)
    serviceProviders, \* collection "serviceProviders", likewise
    updates,          \* accepted settings updates so far
    updateResponse,   \* what the last updateServiceProviderSettings answered
    pc,               \* where the running searchServiceProviders call is
    request,          \* its request.data
    geohashPrefixes,  \* its geohashPrefixes
    prefixIdx,        \* index of the prefix the for loop is at
    snapshot,         \* snapshot.docs of the last range query
    docIdx,           \* index of the document the inner loop is at
    providers,        \* its providers array
    fault,            \* the rejection the store answered an await of it with
    response,         \* what the last searchServiceProviders answered
    previous,         \* the request and the list of an earlier call, kept by
                      \* its caller
    codecArgs,        \* the arguments of a call of a geohash utility
    codecResult,      \* what that call returned
    offers,           \* collection "offers": offer id -> None or Some(document)
    appointments,     \* collection "appointments", likewise
    paymentResponse   \* what the last processPayment answered

vars == << users, serviceProviders, updates, updateResponse, pc,
           request, geohashPrefixes, prefixIdx, snapshot, docIdx, providers,
           fault, response, previous, codecArgs, codecResult,
           offers, appointments, paymentResponse >>

codecVars == << codecArgs, codecResult >>

bookingVars == << offers, appointments, paymentResponse >>

storeVars == << users, serviceProviders, updates, updateResponse >>

searchVars == << pc, request, geohashPrefixes, prefixIdx, snapshot, docIdx,
                 providers, fault, response >>

NoResponse == [status |-> "none", message |-> <<>>, value |-> <<>>]

Returned(v) == [status |-> "ok", message |-> <<>>, value |-> v]

\* throw new Error(`${wrapper}: ${errorMessage}`)
Thrown(wrapper, errorMessage) ==
    [status |-> "error", message |-> <<wrapper, errorMessage>>, value |-> <<>>]

NoRequest == SearchServiceProvidersRequest("", None)

\* no response of a callable is on its way to its caller
NoPendingResponse == updateResponse = NoResponse /\ pc # "done"

\* the state after deployment: both collections empty, no call running
Deployed ==
    /\ users = [u \in UserIds |-> None]
    /\ serviceProviders = [u \in UserIds |-> None]
    /\ updates = 0
    /\ updateResponse = NoResponse
    /\ pc = "idle"
    /\ request = NoRequest
    /\ geohashPrefixes = <<>>
    /\ prefixIdx = 0
    /\ snapshot = <<>>
    /\ docIdx = 0
    /\ providers = <<>>
    /\ fault = None
    /\ response = NoResponse
    /\ previous = None
    /\ offers = [o \in OfferIds |-> None]
    /\ appointments = [a \in AppointmentIds |-> None]
    /\ paymentResponse = NoResponse

Init ==
    /\ Deployed
    /\ codecArgs = None
    /\ codecResult = None

(***************************************************************************)
(* users collection and onUserCreated                                      *)
(***************************************************************************)
UserData(isServiceProvider) ==
    [isServiceProvider |-> isServiceProvider, firstName |-> "Ada",
     lastName |-> "Obi", phone |-> "0800"]

\* a client creates the document users/{userId}, once: the id is the uid of
\* its account, which is not issued again
CreateUser(userId, isServiceProvider) ==
    /\ NoPendingResponse
    /\ users[userId] = None
    /\ serviceProviders[userId] = None
    /\ users' = [users EXCEPT ![userId] = Some(UserData(isServiceProvider))]
    /\ UNCHANGED << serviceProviders, updates, updateResponse >>
    /\ UNCHANGED << searchVars, previous, codecVars, bookingVars >>

\* the document users/{userId} of a provider is deleted; no handler removes
\* the provider record with it
DeleteUser(userId) ==
    /\ NoPendingResponse
    /\ users[userId] # None
    /\ serviceProviders[userId] # None
    /\ users' = [users EXCEPT ![userId] = None]
    /\ UNCHANGED << serviceProviders, updates, updateResponse >>
    /\ UNCHANGED << searchVars, previous, codecVars, bookingVars >>

\* generateGeohash(0, 0, 7), the default geohash for 0,0 coordinates
DefaultGeohash == generateGeohash(0, 0, 7)

\* the default profile onUserCreated writes
DefaultProfile(userId) ==
    [id |-> userId,
     userId |-> userId,
     services |-> Services(FALSE, FALSE, FALSE),
     extraOptions |-> {},
     workingPreferences |->
        WorkingPreferences(
            Some([coordinates |-> Some(Coordinates(0, 0)),
                  radius |-> 0,
                  geohash |-> DefaultGeohash]),
            Some("default")),
     isActive |-> FALSE,
     rating |-> 0,
     totalJobs |-> 0]

\* mutant: the profile is written whatever the isServiceProvider flag says
onUserCreatedForEveryUser(userId) ==
    /\ NoPendingResponse
    /\ users[userId] # None
    /\ serviceProviders' =
          [serviceProviders EXCEPT ![userId] = Some(DefaultProfile(userId))]
    /\ UNCHANGED << users, updates, updateResponse >>
    /\ UNCHANGED << searchVars, previous, codecVars, bookingVars >>

\* the trigger on users/{userId}; the platform delivers its event at least
\* once, so the handler can run again for the same user
onUserCreated(userId) ==
    /\ NoPendingResponse
    /\ users[userId] # None
    /\ LET userData == users[userId][1]
       IN  IF ~userData.isServiceProvider
           THEN UNCHANGED serviceProviders
           ELSE serviceProviders' =
                    [serviceProviders EXCEPT ![userId] = Some(DefaultProfile(userId))]
    /\ UNCHANGED << users, updates, updateResponse >>
    /\ UNCHANGED << searchVars, previous, codecVars, bookingVars >>

(***************************************************************************)
(* updateServiceProviderSettings                                           *)
(***************************************************************************)
UpdateWrapper == "Failed to update service provider profile"

\* Object.values(services).some(service => service)
AnyService(services) == \E c \in DOMAIN services : services[c]

\* workingPreferences?.serviceArea is set
HasServiceArea(workingPreferences) ==
    workingPreferences # None /\ workingPreferences[1].serviceArea # None

\* the coordinates of the service areas of the update requests
CentreInputs ==
    { r.providerData.workingPreferences[1].serviceArea[1].coordinates[1] :
        r \in { q \in UpdateRequestInputs :
                  /\ HasServiceArea(q.providerData.workingPreferences)
                  /\ q.providerData.workingPreferences[1].serviceArea[1].coordinates
                        # None } }

\* generateGeohash(latitude, longitude, 7) of line 37 on these coordinates,
\* evaluated once
GeohashOfCentre ==
    [c \in CentreInputs |-> generateGeohash(c.latitude, c.longitude, 7)]

\* mutant: the geohash is computed at precision 6
WithShortGeohash(workingPreferences) ==
    LET wp == workingPreferences[1]
        serviceArea == wp.serviceArea[1]
        c == serviceArea.coordinates[1]
        geohash == generateGeohash(c.latitude, c.longitude, 6)
    IN  Some([wp EXCEPT !.serviceArea =
                 Some([serviceArea EXCEPT !.geohash = geohash])])

\* mutant: the service area is stored as the client sent it
WithClientGeohash(workingPreferences) == workingPreferences

\* lines 32-46: the geohash of a supplied service area is computed from its
\* coordinates and replaces the one the client sent
WithGeohash(workingPreferences) ==
    LET wp == workingPreferences[1]
        serviceArea == wp.serviceArea[1]
        c == serviceArea.coordinates[1]
        geohash == GeohashOfCentre[c]
    IN  Some([wp EXCEPT !.serviceArea =
                 Some([serviceArea EXCEPT !.geohash = geohash])])

\* mutant: the active flag is not recomputed
UpdatedKeepingActive(doc, providerData, workingPreferences) ==
    [doc EXCEPT
        !.services = providerData.services,
        !.extraOptions = providerData.extraOptions,
        !.workingPreferences =
            IF workingPreferences = None THEN @ ELSE workingPreferences[1]]

\* the document after update(updateData): the named fields are replaced, the
\* others kept; an undefined field, when the client ignores it, is kept too
Updated(doc, providerData, workingPreferences) ==
    [doc EXCEPT
        !.services = providerData.services,
        !.extraOptions = providerData.extraOptions,
        !.workingPreferences =
            IF workingPreferences = None THEN @ ELSE workingPreferences[1],
        !.isActive = AnyService(providerData.services)]

\* mutant: the update is applied to every record of the collection
updateEveryRecord(auth, userId, providerData) ==
    LET wpIn == providerData.workingPreferences
        fail(m) == /\ updateResponse' = Thrown(UpdateWrapper, m)
                   /\ UNCHANGED << serviceProviders, updates >>
    IN  /\ NoPendingResponse
        /\ IF auth = None \/ auth[1] # userId
           THEN fail("Unauthorized")
           ELSE IF HasServiceArea(wpIn) /\ wpIn[1].serviceArea[1].coordinates = None
           THEN fail("TypeError")
           ELSE \/ /\ wpIn = None
                   /\ fail("Cannot use undefined as a Firestore value")
                \/ IF serviceProviders[userId] = None
                   THEN fail("NOT_FOUND")
                   ELSE LET wp == IF HasServiceArea(wpIn)
                                  THEN WithGeohash(wpIn) ELSE wpIn
                        IN  /\ updates < MaxUpdates
                            /\ updates' = updates + 1
                            /\ serviceProviders' =
                                  [v \in UserIds |->
                                      IF serviceProviders[v] = None THEN None
                                      ELSE Some(Updated(serviceProviders[v][1],
                                                        providerData, wp))]
                            /\ updateResponse' = Returned("success")
        /\ UNCHANGED users
        /\ UNCHANGED << searchVars, previous, codecVars, bookingVars >>

\* mutant: the caller is authenticated but not compared with the target
updateWithoutOwnerCheck(auth, userId, providerData) ==
    LET wpIn == providerData.workingPreferences
        fail(m) == /\ updateResponse' = Thrown(UpdateWrapper, m)
                   /\ UNCHANGED << serviceProviders, updates >>
    IN  /\ NoPendingResponse
        /\ IF auth = None
           THEN fail("Unauthorized")
           ELSE IF HasServiceArea(wpIn) /\ wpIn[1].serviceArea[1].coordinates = None
           THEN fail("TypeError")
           ELSE \/ /\ wpIn = None
                   /\ fail("Cannot use undefined as a Firestore value")
                \/ IF serviceProviders[userId] = None
                   THEN fail("NOT_FOUND")
                   ELSE LET wp == IF HasServiceArea(wpIn)
                                  THEN WithGeohash(wpIn) ELSE wpIn
                        IN  /\ updates < MaxUpdates
                            /\ updates' = updates + 1
                            /\ serviceProviders' =
                                  [serviceProviders EXCEPT ![userId] =
                                      Some(Updated(@[1], providerData, wp))]
                            /\ updateResponse' = Returned("success")
        /\ UNCHANGED users
        /\ UNCHANGED << searchVars, previous, codecVars, bookingVars >>

\* the callable.  An undefined workingPreferences reaches update(): the store
\* client rejects it or leaves the field out, by its ignoreUndefinedProperties
\* setting, which the handler does not fix; both outcomes are modelled
updateServiceProviderSettings(auth, userId, providerData) ==
    LET wpIn == providerData.workingPreferences
        fail(m) == /\ updateResponse' = Thrown(UpdateWrapper, m)
                   /\ UNCHANGED << serviceProviders, updates >>
    IN  /\ NoPendingResponse
        /\ IF auth = None \/ auth[1] # userId
           THEN fail("Unauthorized")
           ELSE IF HasServiceArea(wpIn) /\ wpIn[1].serviceArea[1].coordinates = None
           THEN fail("TypeError")
           ELSE \/ /\ wpIn = None
                   /\ fail("Cannot use undefined as a Firestore value")
                \/ IF serviceProviders[userId] = None
                   THEN fail("NOT_FOUND")
                   ELSE LET wp == IF HasServiceArea(wpIn)
                                  THEN WithGeohash(wpIn) ELSE wpIn
                        IN  /\ updates < MaxUpdates
                            /\ updates' = updates + 1
                            /\ serviceProviders' =
                                  [serviceProviders EXCEPT ![userId] =
                                      Some(Updated(@[1], providerData, wp))]
                            /\ updateResponse' = Returned("success")
        /\ UNCHANGED users
        /\ UNCHANGED << searchVars, previous, codecVars, bookingVars >>

(***************************************************************************)
(* searchServiceProviders                                                  *)
(***************************************************************************)
SearchWrapper == "Failed to search service providers"

\* !x of a number: undefined and 0 are falsy
Falsy(x) == x = Undefined \/ x = 0

\* the condition of line 84
InvalidRequestParameters(serviceType, location) ==
    \/ serviceType = ""
    \/ location = None
    \/ Falsy(location[1].latitude)
    \/ Falsy(location[1].longitude)

\* mutant: the range ends at the prefix followed by the last base-32
\* character
InPrefixRangeUpToZ(doc, geohashPrefix) ==
    /\ doc.workingPreferences.serviceArea # None
    /\ LET geohash == doc.workingPreferences.serviceArea[1].geohash
       IN  /\ StrLessEq(geohashPrefix, geohash)
           /\ StrLess(geohash, geohashPrefix \o << Base32Size - 1 >>)

InPrefixRange(doc, geohashPrefix) ==
    /\ doc.workingPreferences.serviceArea # None
    /\ LET geohash == doc.workingPreferences.serviceArea[1].geohash
       IN  /\ StrLessEq(geohashPrefix, geohash)
           /\ StrLess(geohash, geohashPrefix \o <<Tilde>>)

\* mutant: the query keeps only its geohash range
MatchesRangeOnly(doc, serviceType, geohashPrefix) ==
    InPrefixRange(doc, geohashPrefix)

\* mutant: the query does not filter on the service category
MatchesActiveInRange(doc, serviceType, geohashPrefix) ==
    doc.isActive = TRUE /\ InPrefixRange(doc, geohashPrefix)

\* the where clauses of lines 103-106 on one document
MatchesQuery(doc, serviceType, geohashPrefix) ==
    /\ doc.isActive = TRUE
    /\ serviceType \in DOMAIN doc.services
    /\ doc.services[serviceType] = TRUE
    /\ InPrefixRange(doc, geohashPrefix)

QueryKey(store, u) == store[u][1].workingPreferences.serviceArea[1].geohash

\* documents in the order of a range query: by the range field, then by id
RECURSIVE OrderedDocs(_, _)
OrderedDocs(store, ids) ==
    IF ids = {} THEN <<>>
    ELSE LET first == CHOOSE u \in ids : \A v \in ids \ {u} :
                         \/ StrLess(QueryKey(store, u), QueryKey(store, v))
                         \/ QueryKey(store, u) = QueryKey(store, v) /\ u < v
         IN  <<[id |-> first, data |-> store[first][1]]>>
                \o OrderedDocs(store, ids \ {first})

\* mutant: the query resumes after the documents an earlier call returned
QueryProvidersAfterPrevious(store, serviceType, geohashPrefix) ==
    OrderedDocs(store,
        { u \in DOMAIN store :
            /\ store[u] # None
            /\ MatchesQuery(store[u][1], serviceType, geohashPrefix)
            /\ previous # None =>
                  \A k \in DOMAIN previous[1].value : previous[1].value[k].id # u })

\* snapshot.docs of the range query of lines 102-107
QueryProviders(store, serviceType, geohashPrefix) ==
    OrderedDocs(store,
        { u \in DOMAIN store :
            /\ store[u] # None
            /\ MatchesQuery(store[u][1], serviceType, geohashPrefix) })

\* lines 113-123 on one document: "skip", "throw" or "accept"
Refine(location, provider) ==
    IF provider.workingPreferences.serviceArea = None THEN "skip"
    ELSE LET serviceArea == provider.workingPreferences.serviceArea[1]
         IN  IF serviceArea.coordinates = None THEN "throw"
             ELSE LET distance ==
                        calculateDistance(location.latitude, location.longitude,
                            serviceArea.coordinates[1].latitude,
                            serviceArea.coordinates[1].longitude)
                  IN  IF WithinRadius(distance, serviceArea.radius)
                      THEN "accept" ELSE "skip"

\* the distance of lines 115-120
DistanceTo(location, provider) ==
    LET c == provider.workingPreferences.serviceArea[1].coordinates[1]
    IN  calculateDistance(location.latitude, location.longitude,
                          c.latitude, c.longitude)

\* mutant: an absent user document gives a placeholder profile
ResultWithPlaceholder(doc, userDoc, location) ==
    [id |-> doc.id,
     userId |-> doc.data.userId,
     profile |->
        [firstName |-> IF userDoc = None THEN "unknown" ELSE userDoc[1].firstName,
         lastName |-> IF userDoc = None THEN "unknown" ELSE userDoc[1].lastName,
         phone |-> IF userDoc = None THEN "unknown" ELSE userDoc[1].phone],
     services |-> doc.data.services,
     extraOptions |-> doc.data.extraOptions,
     workingPreferences |-> doc.data.workingPreferences,
     rating |-> doc.data.rating,
     totalJobs |-> doc.data.totalJobs,
     distance |-> RoundToMeters(DistanceTo(location, doc.data))]

\* mutant: the working preferences are read again from the store at the push
ResultWithStoredPreferences(doc, userDoc, location) ==
    [id |-> doc.id,
     userId |-> doc.data.userId,
     profile |->
        [firstName |-> IF userDoc = None THEN "" ELSE userDoc[1].firstName,
         lastName |-> IF userDoc = None THEN "" ELSE userDoc[1].lastName,
         phone |-> IF userDoc = None THEN "" ELSE userDoc[1].phone],
     services |-> doc.data.services,
     extraOptions |-> doc.data.extraOptions,
     workingPreferences |-> serviceProviders[doc.id][1].workingPreferences,
     rating |-> doc.data.rating,
     totalJobs |-> doc.data.totalJobs,
     distance |-> RoundToMeters(DistanceTo(location, doc.data))]

\* the element pushed at lines 128-143
ServiceProviderResult(doc, userDoc, location) ==
    [id |-> doc.id,
     userId |-> doc.data.userId,
     profile |->
        [firstName |-> IF userDoc = None THEN "" ELSE userDoc[1].firstName,
         lastName |-> IF userDoc = None THEN "" ELSE userDoc[1].lastName,
         phone |-> IF userDoc = None THEN "" ELSE userDoc[1].phone],
     services |-> doc.data.services,
     extraOptions |-> doc.data.extraOptions,
     workingPreferences |-> doc.data.workingPreferences,
     rating |-> doc.data.rating,
     totalJobs |-> doc.data.totalJobs,
     distance |-> RoundToMeters(DistanceTo(location, doc.data))]

\* mutant: a record is placed ahead of the records at its own distance
RECURSIVE InsertAheadOfEqual(_, _)
InsertAheadOfEqual(sorted, r) ==
    IF sorted = <<>> THEN <<r>>
    ELSE IF Head(sorted).distance < r.distance
         THEN <<Head(sorted)>> \o InsertAheadOfEqual(Tail(sorted), r)
         ELSE <<r>> \o sorted

\* Array.prototype.sort with (a, b) => a.distance - b.distance: stable
RECURSIVE InsertByDistance(_, _)
InsertByDistance(sorted, r) ==
    IF sorted = <<>> THEN <<r>>
    ELSE IF Head(sorted).distance <= r.distance
         THEN <<Head(sorted)>> \o InsertByDistance(Tail(sorted), r)
         ELSE <<r>> \o sorted

\* mutant: the list is returned in insertion order
Unsorted(list) == list

RECURSIVE SortByDistance(_)
SortByDistance(list) ==
    IF list = <<>> THEN <<>>
    ELSE InsertByDistance(SortByDistance(SubSeq(list, 1, Len(list) - 1)),
                          list[Len(list)])

\* The synchronous run of the loops from document idx of the snapshot up to
\* the next await: the user fetch of the next accepted document, the range
\* query of the next prefix, or, when both loops are over, the sort and the
\* return.  A throw on the way ends the call in the catch block.
RECURSIVE RunLoops(_, _, _, _, _)
RunLoops(location, prefixes, pIdx, snap, idx) ==
    IF idx <= Len(snap)
    THEN LET outcome == Refine(location, snap[idx].data)
         IN  IF outcome = "accept" THEN [pc |-> "fetch", prefixIdx |-> pIdx, docIdx |-> idx]
             ELSE IF outcome = "throw" THEN [pc |-> "throw", prefixIdx |-> pIdx, docIdx |-> idx]
             ELSE RunLoops(location, prefixes, pIdx, snap, idx + 1)
    ELSE IF pIdx < Len(prefixes)
         THEN [pc |-> "query", prefixIdx |-> pIdx + 1, docIdx |-> 0]
         ELSE [pc |-> "return", prefixIdx |-> pIdx, docIdx |-> idx]

\* the state of the call after RunLoops
Resume(snap, idx, list) ==
    LET next == RunLoops(request.location[1], geohashPrefixes, prefixIdx, snap, idx)
    IN  /\ snapshot' = snap
        /\ providers' = list
        /\ prefixIdx' = next.prefixIdx
        /\ docIdx' = next.docIdx
        /\ IF next.pc = "return"
           THEN pc' = "done" /\ response' = Returned(SortByDistance(list))
           ELSE IF next.pc = "throw"
           THEN pc' = "done" /\ response' = Thrown(SearchWrapper, "TypeError")
           ELSE pc' = next.pc /\ response' = NoResponse

\* the call arrives: lines 81-95, up to the first range query
SearchStart(serviceType, location) ==
    /\ NoPendingResponse
    /\ pc = "idle"
    /\ request' = SearchServiceProvidersRequest(serviceType, location)
    /\ snapshot' = <<>>
    /\ docIdx' = 0
    /\ providers' = <<>>
    /\ fault' = None
    /\ IF InvalidRequestParameters(serviceType, location)
       THEN /\ pc' = "done"
            /\ response' = Thrown(SearchWrapper, "Invalid request parameters")
            /\ geohashPrefixes' = <<>>
            /\ prefixIdx' = 0
       ELSE /\ pc' = "query"
            /\ response' = NoResponse
            /\ geohashPrefixes' =
                  getGeohashPrefixesForSearch(location[1].latitude,
                      location[1].longitude, searchRadius)
            /\ prefixIdx' = 1
    /\ UNCHANGED << storeVars, previous, codecVars, bookingVars >>

\* the range query of the current prefix answers
RangeQuery ==
    /\ NoPendingResponse
    /\ pc = "query"
    /\ Resume(QueryProviders(serviceProviders, request.serviceType,
                             geohashPrefixes[prefixIdx]), 1, providers)
    /\ UNCHANGED << request, geohashPrefixes, fault >>
    /\ UNCHANGED << storeVars, previous, codecVars, bookingVars >>

\* messages of the errors the store client rejects a read with
StoreErrors == {"UNAVAILABLE"}

\* mutant: the rejection is swallowed and the records accepted so far returned
StoreFaultPartial ==
    /\ NoPendingResponse
    /\ pc \in {"query", "fetch"}
    /\ \E e \in StoreErrors :
          /\ fault' = Some(e)
          /\ pc' = "done"
          /\ response' = Returned(SortByDistance(providers))
    /\ UNCHANGED << request, geohashPrefixes, prefixIdx, snapshot, docIdx, providers >>
    /\ UNCHANGED << storeVars, previous, codecVars, bookingVars >>

\* an await of the call rejects: the catch block of lines 155-159
StoreFault ==
    /\ NoPendingResponse
    /\ pc \in {"query", "fetch"}
    /\ \E e \in StoreErrors :
          /\ fault' = Some(e)
          /\ pc' = "done"
          /\ response' = Thrown(SearchWrapper, e)
    /\ UNCHANGED << request, geohashPrefixes, prefixIdx, snapshot, docIdx, providers >>
    /\ UNCHANGED << storeVars, previous, codecVars, bookingVars >>

\* the user document of the accepted provider arrives: lines 125-143
FetchUser ==
    /\ NoPendingResponse
    /\ pc = "fetch"
    /\ LET doc == snapshot[docIdx]
           userDoc == users[doc.data.userId]
           result == ServiceProviderResult(doc, userDoc, request.location[1])
       IN  Resume(snapshot, docIdx + 1, Append(providers, result))
    /\ UNCHANGED << request, geohashPrefixes, fault >>
    /\ UNCHANGED << storeVars, previous, codecVars, bookingVars >>

\* the platform hands the response of a callable to its caller; the frame of
\* the call is gone.  Requests are taken up one reply at a time.
Delivered ==
    /\ ~NoPendingResponse
    /\ updateResponse' = NoResponse
    /\ IF pc = "done"
       THEN /\ pc' = "idle"
            /\ request' = NoRequest
            /\ geohashPrefixes' = <<>>
            /\ prefixIdx' = 0
            /\ snapshot' = <<>>
            /\ docIdx' = 0
            /\ providers' = <<>>
            /\ fault' = None
            /\ response' = NoResponse
       ELSE UNCHANGED searchVars
    /\ UNCHANGED << users, serviceProviders, updates >>
    /\ UNCHANGED << codecVars, bookingVars >>

Reply == Delivered /\ UNCHANGED previous

\* An update call runs while a search is in flight when it is the call of an
\* owner on an existing record; a call that is rejected whatever the store
\* holds touches nothing a search reads, and is taken up between searches.
Scheduled(r) ==
    \/ pc = "idle"
    \/ r.auth = Some(r.userId) /\ serviceProviders[r.userId] # None

Next ==
    \/ \E u \in UserIds, b \in BOOLEAN : CreateUser(u, b)
    \/ \E u \in UserIds : onUserCreated(u)
    \/ \E r \in { q \in UpdateRequestInputs : Scheduled(q) } :
          updateServiceProviderSettings(r.auth, r.userId, r.providerData)
    \/ \E r \in SearchRequestInputs : SearchStart(r.serviceType, r.location)
    \/ RangeQuery
    \/ StoreFault
    \/ FetchUser
    \/ Reply

Spec == Init /\ [][Next]_vars

(***************************************************************************)
(* The store with records of the earlier updateServiceProviderSettings     *)
(* (functions/serviceProviderFunctions.ts), which persists the             *)
(* workingPreferences of the request as the client sent them               *)
(***************************************************************************)
updateServiceProviderSettingsLegacy(auth, userId, providerData) ==
    LET wpIn == providerData.workingPreferences
        fail(m) == /\ updateResponse' = Thrown(UpdateWrapper, m)
                   /\ UNCHANGED << serviceProviders, updates >>
    IN  /\ NoPendingResponse
        /\ IF auth = None \/ auth[1] # userId
           THEN fail("Unauthorized")
           ELSE \/ /\ wpIn = None
                   /\ fail("Cannot use undefined as a Firestore value")
                \/ IF serviceProviders[userId] = None
                   THEN fail("NOT_FOUND")
                   ELSE /\ updates < MaxUpdates
                        /\ updates' = updates + 1
                        /\ serviceProviders' =
                              [serviceProviders EXCEPT ![userId] =
                                  Some(Updated(@[1], providerData, wpIn))]
                        /\ updateResponse' = Returned("success")
        /\ UNCHANGED users
        /\ UNCHANGED << searchVars, previous, codecVars, bookingVars >>

NextLegacy ==
    \/ Next
    \/ \E r \in { q \in UpdateRequestInputs : Scheduled(q) } :
          updateServiceProviderSettingsLegacy(r.auth, r.userId, r.providerData)

SpecLegacy == Init /\ [][NextLegacy]_vars

(***************************************************************************)
(* The store when the user documents of providers can be deleted           *)
(***************************************************************************)
NextWithDeletion ==
    \/ Next
    \/ \E u \in UserIds : DeleteUser(u)

SpecWithDeletion == Init /\ [][NextWithDeletion]_vars

(***************************************************************************)
(* A caller that repeats its search: the store is written up to the first  *)
(* call that returns a list, and is left alone from the start of that call *)
(* on; the caller keeps the list and sends the same request again          *)
(***************************************************************************)
ReplyToCaller ==
    /\ Delivered
    /\ previous' =
          IF previous = None /\ pc = "done" /\ response.status = "ok"
          THEN Some([request |-> request, value |-> response.value])
          ELSE previous

\* no call is running and no list is kept: the store can be written
StoreOpen == pc = "idle" /\ previous = None

NextRepeat ==
    \/ \E u \in UserIds, b \in BOOLEAN : StoreOpen /\ CreateUser(u, b)
    \/ \E u \in UserIds : StoreOpen /\ onUserCreated(u)
    \/ \E r \in UpdateRequestInputs :
          /\ StoreOpen
          /\ updateServiceProviderSettings(r.auth, r.userId, r.providerData)
    \/ \E r \in SearchRequestInputs :
          /\ previous # None => r = previous[1].request
          /\ SearchStart(r.serviceType, r.location)
    \/ RangeQuery
    \/ StoreFault
    \/ FetchUser
    \/ ReplyToCaller

SpecRepeat == Init /\ [][NextRepeat]_vars

(***************************************************************************)
(* The geohash utilities called on their own                               *)
(***************************************************************************)
\* a radius of radiusMeters + thousandths / 1000 metres
Radius(radiusMeters, thousandths) ==
    [radiusMeters |-> radiusMeters, thousandths |-> thousandths]

\* radii at, just below and just above the thresholds of the code and a
\* thousand times them, with the scan radius of the search
RadiusInputs ==
    { Radius(0, t) : t \in {0, 37, 38, 39, 152, 153, 154} }
      \cup { Radius(1, t) : t \in {199, 200, 201} }
      \cup { Radius(4, t) : t \in {899, 900, 901} }
      \cup { Radius(m, 0) :
                m \in { 37, 38, 39, 152, 153, 154, 155, 156, 157,
                        1199, 1200, 1201, 1249, 1250, 1251,
                        4899, 4900, 4901, 4999, 5000, 5001,
                        38999, 39000, 39001, searchRadius,
                        155999, 156000, 156001,
                        1249999, 1250000, 1250001,
                        4999999, 5000000, 5000001 } }

\* two radii are chosen and the utility is called on the first, then on the
\* second
InitCodec ==
    /\ Deployed
    /\ codecArgs \in RadiusInputs \X RadiusInputs
    /\ codecResult = <<>>

CallPrecisionForRadius ==
    /\ Len(codecResult) < Len(codecArgs)
    /\ LET radius == codecArgs[Len(codecResult) + 1]
       IN  codecResult' =
              Append(codecResult,
                     getGeohashPrecisionForRadius(radius.radiusMeters,
                                                  radius.thousandths))
    /\ UNCHANGED << storeVars, searchVars, previous, codecArgs, bookingVars >>

NextCodec == CallPrecisionForRadius

SpecCodec == InitCodec /\ [][NextCodec]_vars

(***************************************************************************)
(* getGeohashPrefixesForSearch called on its own                           *)
(***************************************************************************)
\* centres in both hemispheres, on the equator and the prime meridian, and
\* in the corner cells of the grid
PrefixCentreInputs ==
    { Lagos, Abuja, SouthPacific, Coordinates(0, 0),
      Coordinates(900000, 1800000), Coordinates(-900000, -1800000) }

\* whole-metre radii at and around the thresholds below 5000 m, the 1000 m
\* branch of the function, and the scan radius
PrefixRadiusInputs ==
    { 0, 1, 2, 4, 5, 38, 39, 155, 156, 999, 1000, 1001, 1249, 1250,
      4999, 5000, searchRadius }

InitPrefixes ==
    /\ Deployed
    /\ codecArgs \in
          [coordinates : PrefixCentreInputs, radiusMeters : PrefixRadiusInputs]
    /\ codecResult = None

CallPrefixesForSearch ==
    /\ codecResult = None
    /\ codecResult' =
          Some(getGeohashPrefixesForSearch(codecArgs.coordinates.latitude,
                                           codecArgs.coordinates.longitude,
                                           codecArgs.radiusMeters))
    /\ UNCHANGED << storeVars, searchVars, previous, codecArgs, bookingVars >>

NextPrefixes == CallPrefixesForSearch

SpecPrefixes == InitPrefixes /\ [][NextPrefixes]_vars

(***************************************************************************)
(* The geohash range of the query evaluated on its own                     *)
(***************************************************************************)
MaxLen == 3

\* the first, the second and the last character of the base-32 alphabet
GeohashChars == {0, 1, Base32Size - 1}

\* the strings over GeohashChars of lengths lo..hi
StringsOfLength(lo, hi) ==
    UNION { [1..n -> GeohashChars] : n \in lo..hi }

\* a stored document reduced to the field the range is evaluated on
DocWithGeohash(geohash) ==
    [workingPreferences |-> [serviceArea |-> Some([geohash |-> geohash])]]

InitRange ==
    /\ Deployed
    /\ codecArgs \in [geohashPrefix : StringsOfLength(1, MaxLen),
                      geohash : StringsOfLength(0, MaxLen)]
    /\ codecResult = None

EvaluateRange ==
    /\ codecResult = None
    /\ codecResult' = Some(InPrefixRange(DocWithGeohash(codecArgs.geohash),
                                         codecArgs.geohashPrefix))
    /\ UNCHANGED << storeVars, searchVars, previous, codecArgs, bookingVars >>

NextRange == EvaluateRange

SpecRange == InitRange /\ [][NextRange]_vars

(***************************************************************************)
(* generateGeohash called on its own                                       *)
(***************************************************************************)
\* latitudes inside, on the edge of and outside [-90, 90]
EncodeLatitudeInputs ==
    { -910000, -900001, -900000, 0, Lagos.latitude, 900000, 900001, 910000 }

\* longitudes inside, on the edge of and outside [-180, 180]
EncodeLongitudeInputs ==
    { -1810000, -1800001, -1800000, 0, Lagos.longitude, 1800000, 1800001,
      1810000 }

EncodePrecisionInputs == { 1, 5, 7, 9 }

InitEncode ==
    /\ Deployed
    /\ codecArgs \in [latitude : EncodeLatitudeInputs,
                      longitude : EncodeLongitudeInputs,
                      precision : EncodePrecisionInputs]
    /\ codecResult = None

\* ngeohash.encode has no throw statement for a numeric precision: the call
\* returns for every pair of numbers
CallGenerateGeohash ==
    /\ codecResult = None
    /\ codecResult' = Some(Returned(generateGeohash(codecArgs.latitude,
                                                    codecArgs.longitude,
                                                    codecArgs.precision)))
    /\ UNCHANGED << storeVars, searchVars, previous, codecArgs, bookingVars >>

NextEncode == CallGenerateGeohash

SpecEncode == InitEncode /\ [][NextEncode]_vars

(***************************************************************************)
(* appointments collection and processPayment                              *)
(***************************************************************************)
PaymentWrapper == "Payment processing failed"

\* an appointment as its client creates it: no payment recorded
NewAppointment ==
    [status |-> "pending", paymentStatus |-> None, paymentId |-> None,
     paidAt |-> None]

\* a client writes the document appointments/{appointmentId}
CreateAppointment ==
    \E appointmentId \in AppointmentIds :
        /\ appointments[appointmentId] = None
        /\ appointments' =
              [appointments EXCEPT ![appointmentId] = Some(NewAppointment)]
        /\ UNCHANGED << storeVars, searchVars, previous, codecVars, offers,
                        paymentResponse >>

\* request.auth and request.data of processPayment; "" is an absent or empty
\* string, Undefined an absent amount
ProcessPaymentRequest(auth, appointmentId, amount, paymentMethod) ==
    [auth |-> auth, appointmentId |-> appointmentId, amount |-> amount,
     paymentMethod |-> paymentMethod]

PaymentRequestInputs ==
    { ProcessPaymentRequest(auth, a, 2500, "card") :
          auth \in { None, Some(1) }, a \in AppointmentIds }
      \cup { ProcessPaymentRequest(Some(1), "", 2500, "card"),
             ProcessPaymentRequest(Some(1), "a1", Undefined, "card"),
             ProcessPaymentRequest(Some(1), "a1", 0, "card"),
             ProcessPaymentRequest(Some(1), "a1", 2500, ""),
             ProcessPaymentRequest(None, "a1", Undefined, "") }

\* !appointmentId || !amount || !paymentMethod
MissingPaymentInformation(data) ==
    data.appointmentId = "" \/ Falsy(data.amount) \/ data.paymentMethod = ""

\* the ids `pay_${Date.now()}_${Math.random()...}` can take
PaymentIds == {"pay_1", "pay_2", "pay_3"}

\* simulatePaymentProcessing resolves with success true and one of the ids
simulatePaymentProcessing(amount, paymentMethod) ==
    { [success |-> TRUE, paymentId |-> id] : id \in PaymentIds }

\* the fields update() sets on an appointment
Paid(appointment, paymentId) ==
    [appointment EXCEPT !.paymentStatus = Some("completed"),
                        !.paymentId = Some(paymentId),
                        !.paidAt = Some("serverTimestamp")]

processPayment(r) ==
    \/ /\ MissingPaymentInformation(r)
       /\ paymentResponse' =
             Thrown(PaymentWrapper, "Missing required payment information")
       /\ UNCHANGED appointments
       /\ UNCHANGED << storeVars, searchVars, previous, codecVars, offers >>
    \/ /\ ~MissingPaymentInformation(r)
       /\ \E paymentResult \in simulatePaymentProcessing(r.amount,
                                                         r.paymentMethod) :
             IF ~paymentResult.success
             THEN /\ paymentResponse' =
                        Thrown(PaymentWrapper, "Payment processing failed")
                  /\ UNCHANGED appointments
             ELSE IF appointments[r.appointmentId] = None
             THEN \* update() of a document that does not exist is rejected
                  /\ paymentResponse' = Thrown(PaymentWrapper, "NOT_FOUND")
                  /\ UNCHANGED appointments
             ELSE /\ appointments' =
                        [appointments EXCEPT ![r.appointmentId] =
                            Some(Paid(appointments[r.appointmentId][1],
                                      paymentResult.paymentId))]
                  /\ paymentResponse' =
                        Returned([success |-> TRUE,
                                  paymentId |-> paymentResult.paymentId])
       /\ UNCHANGED << storeVars, searchVars, previous, codecVars, offers >>

NextPayments ==
    \/ CreateAppointment
    \/ \E r \in PaymentRequestInputs : processPayment(r)

SpecPayments == Init /\ [][NextPayments]_vars

(***************************************************************************)
(* offers collection and onOfferCreated                                    *)
(***************************************************************************)
\* A string is the sequence of its characters; a field of a document is
\* None when absent and Some(value) otherwise.
Chars(c, n) == [i \in 1..n |-> c]

\* String.prototype.trim
RECURSIVE trimStart(_)
trimStart(s) ==
    IF s # <<>> /\ Head(s) = " " THEN trimStart(Tail(s)) ELSE s

RECURSIVE trimEnd(_)
trimEnd(s) ==
    IF s # <<>> /\ s[Len(s)] = " "
    THEN trimEnd(SubSeq(s, 1, Len(s) - 1))
    ELSE s

trim(s) == trimEnd(trimStart(s))

OfferData(title, description, price, serviceProviderId) ==
    [title |-> title, description |-> description, price |-> price,
     serviceProviderId |-> serviceProviderId]

\* an offer whose four fields pass, and offers that differ from it in one
\* field or in all of them
ValidOffer ==
    OfferData(Some(<<"a", "b", "c">>), Some(Chars("d", 10)), Some(2500),
              Some(<<"u", "1">>))

OfferInputs ==
    { ValidOffer, OfferData(None, None, None, None),
      OfferData(Some(<<"a", "b">>), Some(Chars("d", 9)), Some(0), None) }
      \cup { [ValidOffer EXCEPT !.title = t] :
                t \in { None, Some(<<>>), Some(Chars(" ", 3)),
                        Some(<<"a", "b">>), Some(<<" ", "a", "b", " ">>),
                        Some(<<" ", "a", "b", "c", " ">>) } }
      \cup { [ValidOffer EXCEPT !.description = t] :
                t \in { None, Some(<<>>), Some(Chars("d", 9)),
                        Some(<<" ">> \o Chars("d", 9) \o <<" ">>),
                        Some(<<" ">> \o Chars("d", 10)) } }
      \cup { [ValidOffer EXCEPT !.price = t] :
                t \in { None, Some(0), Some(-5), Some(1) } }
      \cup { [ValidOffer EXCEPT !.serviceProviderId = t] :
                t \in { None, Some(<<>>) } }

\* the document a client creates: the offer data, not yet validated
NewOffer(offerData) ==
    [title |-> offerData.title, description |-> offerData.description,
     price |-> offerData.price,
     serviceProviderId |-> offerData.serviceProviderId,
     isValid |-> None, validationErrors |-> None, validatedAt |-> None]

\* a client writes the document offers/{offerId}
CreateOffer ==
    \E offerId \in OfferIds, offerData \in OfferInputs :
        /\ offers[offerId] = None
        /\ offers' = [offers EXCEPT ![offerId] = Some(NewOffer(offerData))]
        /\ UNCHANGED << storeVars, searchVars, previous, codecVars,
                        appointments, paymentResponse >>

\* !data[field]: an absent field, an empty string and the number 0
FalsyField(data, field) ==
    \/ data[field] = None
    \/ IF field = "price" THEN data[field][1] = 0 ELSE data[field][1] = <<>>

\* `${field} is required`
RequiredMessage(field) ==
    CASE field = "title" -> "title is required"
      [] field = "description" -> "description is required"
      [] field = "price" -> "price is required"
      [] field = "serviceProviderId" -> "serviceProviderId is required"

RECURSIVE validateRequiredFields(_, _)
validateRequiredFields(data, requiredFields) ==
    IF requiredFields = <<>> THEN <<>>
    ELSE (IF FalsyField(data, Head(requiredFields))
          THEN << RequiredMessage(Head(requiredFields)) >>
          ELSE <<>>)
         \o validateRequiredFields(data, Tail(requiredFields))

\* mutant: the length is taken without trimming
isValidStringUntrimmed(value, minLength) ==
    value # None /\ value[1] # <<>> /\ Len(value[1]) >= minLength

\* Boolean(value && value.trim().length >= minLength)
isValidString(value, minLength) ==
    value # None /\ value[1] # <<>> /\ Len(trim(value[1])) >= minLength

\* price > 0; undefined > 0 is false
isValidPrice(price) == price # None /\ price[1] > 0

validateOffer(offerData) ==
    LET requiredErrors ==
            validateRequiredFields(offerData,
                << "title", "description", "price", "serviceProviderId" >>)
        errors ==
            requiredErrors
              \o (IF ~isValidString(offerData.title, 3)
                  THEN << "Offer title must be at least 3 characters long" >>
                  ELSE <<>>)
              \o (IF ~isValidString(offerData.description, 10)
                  THEN << "Offer description must be at least 10 characters long" >>
                  ELSE <<>>)
              \o (IF ~isValidPrice(offerData.price)
                  THEN << "Offer price must be greater than 0" >>
                  ELSE <<>>)
    IN  [isValid |-> errors = <<>>, errors |-> errors]

\* One delivery of the creation event of offers/{offerId}.  The event carries
\* the document as created; its four validated fields are never rewritten, so
\* they are read from the stored document.  storeFault: update() is rejected,
\* which the catch logs.
onOfferCreated(offerId, storeFault) ==
    /\ offers[offerId] # None
    /\ LET offerData == offers[offerId][1]
           validationResult == validateOffer(offerData)
       IN  IF storeFault
           THEN UNCHANGED offers
           ELSE IF ~validationResult.isValid
           THEN offers' =
                   [offers EXCEPT ![offerId] =
                       Some([offerData EXCEPT
                               !.validationErrors =
                                   Some(validationResult.errors),
                               !.isValid = Some(FALSE)])]
           ELSE offers' =
                   [offers EXCEPT ![offerId] =
                       Some([offerData EXCEPT
                               !.isValid = Some(TRUE),
                               !.validatedAt = Some("serverTimestamp")])]
    /\ UNCHANGED << storeVars, searchVars, previous, codecVars,
                    appointments, paymentResponse >>

NextOffers ==
    \/ CreateOffer
    \/ \E offerId \in OfferIds, storeFault \in BOOLEAN :
          onOfferCreated(offerId, storeFault)

SpecOffers == Init /\ [][NextOffers]_vars

(***************************************************************************)
(* Properties                                                              *)
(***************************************************************************)
\* the call has returned a list
SearchReturned == pc = "done" /\ response.status = "ok"

Indices(list) == 1..Len(list)

\* the Haversine distance, in cm, between the query and a service area
HaversineTo(location, serviceArea) ==
    HaversineCm[<< location.latitude, location.longitude,
                   serviceArea.coordinates[1].latitude,
                   serviceArea.coordinates[1].longitude >>]

\* a service area with a coordinates object holding two numbers
WellFormed(serviceArea) ==
    /\ serviceArea.coordinates # None
    /\ serviceArea.coordinates[1].latitude # Undefined
    /\ serviceArea.coordinates[1].longitude # Undefined

IsReturned(id) == \E i \in Indices(response.value) : response.value[i].id = id

\* C1: every provider in a returned list has a well-formed service area whose
\* centre is no farther from the query, by the Haversine formula, than its
\* own radius.
C1_FilterCorrectness ==
    SearchReturned =>
        \A i \in Indices(response.value) :
            LET serviceArea == response.value[i].workingPreferences.serviceArea
            IN  /\ serviceArea # None
                /\ WellFormed(serviceArea[1])
                /\ HaversineTo(request.location[1], serviceArea[1])
                      <= 100 * serviceArea[1].radius

\* a list was returned that holds one scanned provider and leaves out another
\* one, which is farther from the query than its own radius
C1_Witness ==
    /\ SearchReturned
    /\ response.value # <<>>
    /\ \E i \in Indices(snapshot) :
          LET serviceArea == snapshot[i].data.workingPreferences.serviceArea[1]
          IN  /\ WellFormed(serviceArea)
              /\ HaversineTo(request.location[1], serviceArea)
                    > 100 * serviceArea.radius
              /\ ~IsReturned(snapshot[i].id)

\* the request lacks a category, a location, a latitude or a longitude
LacksParameter(req) ==
    \/ req.serviceType = ""
    \/ req.location = None
    \/ req.location[1].latitude = Undefined
    \/ req.location[1].longitude = Undefined

\* C3: a request is rejected as invalid exactly when its category is empty or
\* its location lacks a latitude or a longitude; latitude 0 and longitude 0
\* are coordinates like any other.
C3_RejectsExactlyMissing ==
    pc # "idle" =>
        ( response = Thrown(SearchWrapper, "Invalid request parameters")
            <=> LacksParameter(request) )

\* C4: a returned list is non-decreasing in the distance field.
C4_SortedByDistance ==
    SearchReturned =>
        \A i, j \in Indices(response.value) :
            i < j => response.value[i].distance <= response.value[j].distance

\* a list was returned whose order is not the order of insertion
C4_Witness ==
    /\ SearchReturned
    /\ Len(response.value) >= 2
    /\ response.value # providers

\* the documents of a snapshot are the stored ones
SnapshotOfStore(snap, store) ==
    \A i \in Indices(snap) : store[snap[i].id] = Some(snap[i].data)

\* C5: a provider whose stored active flag is false is in no snapshot of a
\* range query, and every provider in the providers array or in a returned
\* list is a document of the snapshot with active flag true.
C5_InactiveNeverReturned ==
    /\ [][RangeQuery =>
            /\ SnapshotOfStore(snapshot', serviceProviders)
            /\ \A i \in Indices(snapshot') : snapshot'[i].data.isActive]_vars
    /\ [](\A k \in Indices(providers) :
            \E i \in Indices(snapshot) :
                /\ snapshot[i].id = providers[k].id
                /\ snapshot[i].data.isActive)
    /\ [](\A k \in Indices(response.value) :
            \E i \in Indices(providers) : providers[i] = response.value[k])

\* a list was returned, not empty, while an inactive provider has its service
\* area centred on the query
C5_Witness ==
    /\ SearchReturned
    /\ response.value # <<>>
    /\ \E u \in UserIds :
          /\ serviceProviders[u] # None
          /\ ~serviceProviders[u][1].isActive
          /\ serviceProviders[u][1].workingPreferences.serviceArea # None
          /\ serviceProviders[u][1].workingPreferences.serviceArea[1].coordinates
                = request.location
          /\ ~IsReturned(u)

\* C6: every provider in a returned list has the flag of the requested
\* category set.
C6_OffersCategory ==
    SearchReturned =>
        \A i \in Indices(response.value) :
            response.value[i].services[request.serviceType] = TRUE

\* a list was returned that holds one of two providers with the same service
\* area and leaves out the other, which does not offer the category
C6_Witness ==
    /\ SearchReturned
    /\ \E u, v \in UserIds :
          /\ serviceProviders[u] # None /\ serviceProviders[v] # None
          /\ serviceProviders[u][1].workingPreferences
                = serviceProviders[v][1].workingPreferences
          /\ serviceProviders[u][1].isActive /\ serviceProviders[v][1].isActive
          /\ ~serviceProviders[u][1].services[request.serviceType]
          /\ IsReturned(v) /\ ~IsReturned(u)

\* the service area of a document of the snapshot
AreaOf(doc) == doc.data.workingPreferences.serviceArea[1]

\* C2: when the range query returned a record whose service area lacks its
\* centre coordinates and no store read failed, the call returns a list,
\* the record is not in it, and every well-formed record of the snapshot
\* within its own radius is.
C2_MalformedSkipped ==
    ( /\ pc = "done"
      /\ fault = None
      /\ \E i \in Indices(snapshot) : ~WellFormed(AreaOf(snapshot[i])) )
    => /\ response.status = "ok"
       /\ \A i \in Indices(snapshot) :
             IF WellFormed(AreaOf(snapshot[i]))
             THEN HaversineTo(request.location[1], AreaOf(snapshot[i]))
                     <= 100 * AreaOf(snapshot[i]).radius
                  => IsReturned(snapshot[i].id)
             ELSE ~IsReturned(snapshot[i].id)

\* the provider is active, offers the category of the request, and has a
\* service area of radius >= 0 centred on the location of the request
CentredOnQuery(doc, req) ==
    /\ doc.isActive
    /\ doc.services[req.serviceType]
    /\ doc.workingPreferences.serviceArea # None
    /\ doc.workingPreferences.serviceArea[1].coordinates = req.location
    /\ doc.workingPreferences.serviceArea[1].radius >= 0

\* C7: a range query returns every stored provider that is active, offers
\* the category and is centred on the query with radius >= 0; and a list
\* that is returned holds every such record of the snapshot, with distance 0.
C7_CentredProviderReturned ==
    /\ [][RangeQuery =>
            \A u \in UserIds :
                ( /\ serviceProviders[u] # None
                  /\ CentredOnQuery(serviceProviders[u][1], request) )
                => \E i \in Indices(snapshot') : snapshot'[i].id = u]_vars
    /\ [](SearchReturned =>
            \A i \in Indices(snapshot) :
                CentredOnQuery(snapshot[i].data, request)
                => \E k \in Indices(response.value) :
                      /\ response.value[k].id = snapshot[i].id
                      /\ response.value[k].distance = 0)

\* a provider with radius 0 centred on the query was returned at distance 0
C7_Witness ==
    /\ SearchReturned
    /\ \E k \in Indices(response.value) :
          LET r == response.value[k]
          IN  /\ r.distance = 0
              /\ r.workingPreferences.serviceArea[1].radius = 0
              /\ r.workingPreferences.serviceArea[1].coordinates = request.location

\* C8: of the records of the snapshot with a well-formed service area,
\* exactly those no farther from the query than their own radius are in the
\* returned list; the scan radius plays no part.
C8_OwnRadiusDecides ==
    SearchReturned =>
        \A i \in Indices(snapshot) :
            WellFormed(AreaOf(snapshot[i])) =>
                ( IsReturned(snapshot[i].id)
                    <=> HaversineTo(request.location[1], AreaOf(snapshot[i]))
                           <= 100 * AreaOf(snapshot[i]).radius )

\* a provider farther than the scan radius from the query was returned
C8_Witness ==
    /\ SearchReturned
    /\ \E k \in Indices(response.value) : response.value[k].distance > searchRadius

C10_FaultAbortsSearch ==
    fault # None =>
        /\ pc = "done"
        /\ response.status = "error"
        /\ response.message = <<SearchWrapper, fault[1]>>
        /\ response.value = <<>>

\* the fetch of a user document was rejected after a record had been accepted
C10_Witness ==
    /\ fault # None
    /\ Len(providers) >= 1

EmptyProfile == [firstName |-> "", lastName |-> "", phone |-> ""]

\* C11: when the fetch of the user document of an accepted provider finds no
\* document, the call does not fail and the provider is appended with
\* firstName, lastName and phone empty; and a returned list holds every
\* appended provider.
C11_AbsentUserDefaults ==
    /\ [][(FetchUser /\ users[snapshot[docIdx].data.userId] = None) =>
            /\ response'.status # "error"
            /\ Len(providers') = Len(providers) + 1
            /\ providers'[Len(providers')].id = snapshot[docIdx].id
            /\ providers'[Len(providers')].profile = EmptyProfile]_vars
    /\ [](SearchReturned =>
            \A i \in Indices(providers) :
                \E k \in Indices(response.value) : response.value[k] = providers[i])

\* a list was returned that holds a provider without a user document, with
\* the empty profile
C11_Witness ==
    /\ SearchReturned
    /\ \E k \in Indices(response.value) :
          /\ users[response.value[k].userId] = None
          /\ response.value[k].profile = EmptyProfile

NotOwner(r) == r.auth = None \/ r.auth[1] # r.userId

\* C13: an updateServiceProviderSettings call without authentication, or by a
\* caller other than the target user, ends with the Unauthorized error and
\* leaves every user document and every provider document as it was.
C13_UnauthorizedNoEffect ==
    [][\A r \in UpdateRequestInputs :
          ( /\ NotOwner(r)
            /\ updateServiceProviderSettings(r.auth, r.userId, r.providerData) )
          => /\ updateResponse' = Thrown(UpdateWrapper, "Unauthorized")
             /\ users' = users
             /\ serviceProviders' = serviceProviders]_vars

\* a call was rejected as unauthorized while the record of every user exists
C13_Witness ==
    /\ updateResponse = Thrown(UpdateWrapper, "Unauthorized")
    /\ \A u \in UserIds : serviceProviders[u] # None

\* C14: in every state, the active flag of every provider record is true
\* exactly when one of its stored service category flags is true.
C14_ActiveIffAnyService ==
    \A u \in UserIds :
        serviceProviders[u] # None =>
            ( serviceProviders[u][1].isActive
                <=> \E c \in Categories : serviceProviders[u][1].services[c] )

\* an update has switched every category of a record off, the record of
\* another provider is active, and a call has just been rejected
C14_Witness ==
    /\ updateResponse.status = "error"
    /\ \E u, v \in UserIds :
          /\ serviceProviders[u] # None /\ serviceProviders[v] # None
          /\ serviceProviders[u][1] # DefaultProfile(u)
          /\ ~serviceProviders[u][1].isActive
          /\ serviceProviders[v][1].isActive

IsZeroProfile(record, u) ==
    /\ record.id = u
    /\ record.userId = u
    /\ \A c \in Categories : record.services[c] = FALSE
    /\ record.isActive = FALSE
    /\ record.rating = 0
    /\ record.totalJobs = 0
    /\ record.workingPreferences.serviceArea # None
    /\ record.workingPreferences.serviceArea[1].coordinates = Some(Coordinates(0, 0))
    /\ record.workingPreferences.serviceArea[1].radius = 0

\* C16: the trigger of a created user whose isServiceProvider flag is true
\* writes the zero-valued profile under the identity of the user and touches
\* no other record; the trigger of any other user writes nothing, and such a
\* user has no provider record.
C16_DefaultProfileCreated ==
    /\ [][\A u \in UserIds :
            onUserCreated(u) =>
                IF users[u][1].isServiceProvider
                THEN /\ serviceProviders'[u] # None
                     /\ IsZeroProfile(serviceProviders'[u][1], u)
                     /\ \A v \in UserIds \ {u} :
                           serviceProviders'[v] = serviceProviders[v]
                ELSE serviceProviders' = serviceProviders]_vars
    /\ [](\A u \in UserIds :
            (users[u] # None /\ ~users[u][1].isServiceProvider)
                => serviceProviders[u] = None)

\* a service provider has its zero-valued profile, and a user who is not a
\* service provider has none
C16_Witness ==
    \E u, v \in UserIds :
        /\ users[u] # None /\ users[u][1].isServiceProvider
        /\ serviceProviders[u] # None
        /\ IsZeroProfile(serviceProviders[u][1], u)
        /\ users[v] # None /\ ~users[v][1].isServiceProvider
        /\ serviceProviders[v] = None

\* the fields of a record that only its owner changes
OwnedFields(record) ==
    << record.services, record.extraOptions,
       record.workingPreferences.serviceArea, record.isActive >>

\* the step is an updateServiceProviderSettings call of user u on its own
\* record
UpdateByOwner(u) ==
    \E r \in UpdateRequestInputs :
        /\ r.userId = u
        /\ r.auth = Some(u)
        /\ updateServiceProviderSettings(r.auth, r.userId, r.providerData)

\* C17: a provider record that exists is not removed by any step, and its
\* services, extra options, service area and active flag change only in a
\* step that is an authorized updateServiceProviderSettings call of its
\* owner; a trigger delivered again changes none of them.
C17_ChangedOnlyByOwner ==
    [][\A u \in UserIds :
          serviceProviders[u] # None =>
              /\ serviceProviders'[u] # None
              /\ OwnedFields(serviceProviders'[u][1]) # OwnedFields(serviceProviders[u][1])
                    => UpdateByOwner(u)]_vars

\* C18: a step in which an updateServiceProviderSettings call of a user
\* succeeds leaves every user document and the provider record of every
\* other user as they were.
C18_UpdateFrame ==
    [][\A r \in UpdateRequestInputs :
          ( /\ updateResponse'.status = "ok"
            /\ updateServiceProviderSettings(r.auth, r.userId, r.providerData) )
          => /\ users' = users
             /\ \A v \in UserIds \ {r.userId} :
                   serviceProviders'[v] = serviceProviders[v]]_vars

\* an update has succeeded while another provider holds settings of its own
C18_Witness ==
    /\ updateResponse.status = "ok"
    /\ \E u, v \in UserIds :
          /\ serviceProviders[u] # None /\ serviceProviders[v] # None
          /\ serviceProviders[u][1].isActive /\ serviceProviders[v][1].isActive
          /\ serviceProviders[u][1].workingPreferences
                # serviceProviders[v][1].workingPreferences

\* the table of the specification, thresholds in metres; a threshold that
\* is a whole number is reached exactly when the whole metres reach it
TablePrecision(radius) ==
    LET r == radius.radiusMeters
    IN  IF r >= 5000000 THEN 1
        ELSE IF r >= 1250000 THEN 2
        ELSE IF r >= 156000 THEN 3
        ELSE IF r >= 39000 THEN 4
        ELSE IF r >= 4900 THEN 5
        ELSE IF r >= 1200 THEN 6
        ELSE IF r >= 153 THEN 7
        ELSE IF r >= 38 THEN 8
        ELSE 9

\* C19: the precision returned for a radius is the one of the table: 1 from
\* 5,000,000 m, 2 from 1,250,000 m, 3 from 156,000 m, 4 from 39,000 m, 5 from
\* 4,900 m, 6 from 1,200 m, 7 from 153 m, 8 from 38 m, 9 below.
C19_ThresholdTable ==
    \A i \in Indices(codecResult) : codecResult[i] = TablePrecision(codecArgs[i])

\* r1 <= r2
RadiusLessEq(r1, r2) ==
    \/ r1.radiusMeters < r2.radiusMeters
    \/ r1.radiusMeters = r2.radiusMeters /\ r1.thousandths <= r2.thousandths

\* C20: every precision returned is in 1..9, and of two radii the larger one
\* never gets the larger precision.
C20_PrecisionNonIncreasing ==
    /\ \A i \in Indices(codecResult) : codecResult[i] \in 1..9
    /\ ( Len(codecResult) = 2 /\ RadiusLessEq(codecArgs[1], codecArgs[2]) )
          => codecResult[1] >= codecResult[2]

\* the smaller of two radii got precision 8 and the larger precision 5
C20_Witness ==
    /\ Len(codecResult) = 2
    /\ RadiusLessEq(codecArgs[1], codecArgs[2])
    /\ codecResult[1] = 8
    /\ codecResult[2] = 5

\* the eight directions of a neighbouring cell, as (rows north, columns east)
Directions == ({-1, 0, 1} \X {-1, 0, 1}) \ { << 0, 0 >> }

\* the cell one step from base in direction dir: columns wrap around the
\* date line, rows stop at the poles
IsNeighbourIn(h, base, dir) ==
    LET p    == Len(base)
        rows == Pow2(LatBitCount(p))
        cols == Pow2(LonBitCount(p))
        row  == CellRow(base) + dir[1]
    IN  /\ Len(h) = p
        /\ CellRow(h) = IF row < 0 THEN 0 ELSE IF row >= rows THEN rows - 1
                        ELSE row
        /\ CellColumn(h) = (CellColumn(base) + dir[2] + cols) % cols

\* C21: the prefixes for a search of radius <= 1000 m are the geohash of the
\* centre at precision p = getGeohashPrecisionForRadius(radius) together with
\* its eight neighbours, all of length p; for a larger radius they are the
\* single geohash of the centre at precision max(1, p - 2).
C21_PrefixesForSearch ==
    (codecResult # None /\ DOMAIN codecArgs = {"coordinates", "radiusMeters"})
    => LET centre   == codecArgs.coordinates
           radius   == codecArgs.radiusMeters
           p        == getGeohashPrecisionForRadius(radius, 0)
           prefixes == codecResult[1]
           encoded  == generateGeohash(centre.latitude, centre.longitude, p)
       IN  IF radius <= 1000
           THEN /\ Len(prefixes) = 9
                /\ prefixes[1] = encoded
                /\ \E i \in 1..9 : prefixes[i] = encoded
                /\ \A i \in 1..9 : Len(prefixes[i]) = p
                /\ \A dir \in Directions :
                      \E i \in 2..9 : IsNeighbourIn(prefixes[i], encoded, dir)
           ELSE prefixes =
                   << generateGeohash(centre.latitude, centre.longitude,
                                      Max(1, p - 2)) >>

\* a 1000 m search around Lagos gets nine distinct prefixes of length 3
C21_Witness ==
    /\ codecResult # None
    /\ DOMAIN codecArgs = {"coordinates", "radiusMeters"}
    /\ codecArgs.radiusMeters = 1000
    /\ codecArgs.coordinates = Lagos
    /\ Len(codecResult[1]) = 9
    /\ Cardinality({ codecResult[1][i] : i \in 1..9 }) = 9
    /\ Len(codecResult[1][1]) = 3

\* String.prototype.startsWith
StartsWith(s, prefix) ==
    Len(s) >= Len(prefix) /\ SubSeq(s, 1, Len(prefix)) = prefix

\* C22: for a non-empty prefix and a stored geohash over the base-32
\* alphabet, the range geohash >= prefix and geohash < prefix + "~" holds
\* exactly when the geohash starts with the prefix.
C22_RangeIsPrefixMatch ==
    (codecResult # None /\ DOMAIN codecArgs = {"geohashPrefix", "geohash"})
    => (codecResult[1] <=> StartsWith(codecArgs.geohash,
                                      codecArgs.geohashPrefix))

\* a geohash that continues its prefix with the last character of the
\* alphabet is in the range
C22_Witness ==
    /\ codecResult = Some(TRUE)
    /\ DOMAIN codecArgs = {"geohashPrefix", "geohash"}
    /\ Len(codecArgs.geohashPrefix) = 1
    /\ codecArgs.geohash =
          codecArgs.geohashPrefix \o << Base32Size - 1, Base32Size - 1 >>

InCoordinateRange(latitude, longitude) ==
    /\ -(LatSpan \div 2) <= latitude /\ latitude <= LatSpan \div 2
    /\ -(LonSpan \div 2) <= longitude /\ longitude <= LonSpan \div 2

\* C23: encoding fails when the latitude is outside [-90, 90] or the
\* longitude is outside [-180, 180], and otherwise returns a geohash of
\* exactly `precision` characters; a coordinate out of range never yields a
\* geohash.
C23_OutOfRangeRejected ==
    (codecResult # None
       /\ DOMAIN codecArgs = {"latitude", "longitude", "precision"})
    => IF InCoordinateRange(codecArgs.latitude, codecArgs.longitude)
       THEN /\ codecResult[1].status = "ok"
            /\ Len(codecResult[1].value) = codecArgs.precision
       ELSE codecResult[1].status = "error"

\* C24: every callable validates the caller's authentication, so none of
\* them reads or writes the store for a request without one; processPayment
\* in particular never updates an appointment for an unauthenticated request.
C24_PaymentRequiresAuthentication ==
    [][\A r \in PaymentRequestInputs :
          (r.auth = None /\ processPayment(r))
          => appointments' = appointments]_vars

\* the appointment has a completed payment with a payment id
IsPaid(appointment) ==
    /\ appointment # None
    /\ appointment[1].paymentStatus = Some("completed")
    /\ appointment[1].paymentId # None

\* C30: once an appointment has payment status "completed" and a payment id,
\* no later processPayment changes that id or records a second payment for
\* it; and a call missing appointmentId, amount or paymentMethod writes
\* nothing.
C30_PaymentRecordedOnce ==
    [][/\ \A a \in AppointmentIds :
             IsPaid(appointments[a])
             => /\ IsPaid(appointments'[a])
                /\ appointments'[a][1].paymentId = appointments[a][1].paymentId
       /\ \A r \in PaymentRequestInputs :
             (MissingPaymentInformation(r) /\ processPayment(r))
             => appointments' = appointments]_vars

\* the field has a non-empty value
Present(v) == v # None /\ v[1] # <<>>

\* the leading and trailing blanks of s removed, counted from both ends
TrimmedLength(s) ==
    LET inner == { i \in 1..Len(s) : s[i] # " " }
    IN  IF inner = {} THEN 0
        ELSE (CHOOSE i \in inner : \A j \in inner : j <= i)
               - (CHOOSE i \in inner : \A j \in inner : j >= i) + 1

\* the conditions under which an offer is valid
MeetsOfferRules(doc) ==
    /\ Present(doc.title)
    /\ Present(doc.description)
    /\ doc.price # None
    /\ Present(doc.serviceProviderId)
    /\ TrimmedLength(doc.title[1]) >= 3
    /\ TrimmedLength(doc.description[1]) >= 10
    /\ doc.price[1] > 0

\* C25: after onOfferCreated has run without a store fault the offer has
\* isValid set; it is true exactly when title, description, price and
\* serviceProviderId are present, the trimmed title has at least 3 and the
\* trimmed description at least 10 characters and the price is above 0; when
\* it is false the offer carries a non-empty list of validation errors.
C25_OfferValidated ==
    [][\A offerId \in OfferIds :
          onOfferCreated(offerId, FALSE)
          => LET doc == offers'[offerId][1]
             IN  /\ doc.isValid # None
                 /\ doc.isValid[1] <=> MeetsOfferRules(doc)
                 /\ doc.isValid = Some(FALSE)
                    => /\ doc.validationErrors # None
                       /\ doc.validationErrors[1] # <<>>]_vars

\* one offer was marked valid and another, whose title is too short once
\* trimmed, invalid with its errors
C25_Witness ==
    /\ offers["o1"] # None /\ offers["o1"][1].isValid = Some(TRUE)
    /\ offers["o2"] # None /\ offers["o2"][1].isValid = Some(FALSE)
    /\ offers["o2"][1].title = Some(<<" ", "a", "b", " ">>)
    /\ offers["o2"][1].validationErrors =
          Some(<< "Offer title must be at least 3 characters long" >>)

\* the place of the record of document id in a list of records
PositionOf(list, id) == CHOOSE i \in Indices(list) : list[i].id = id

\* the order in which a range query yields two scanned records: by stored
\* geohash, then by document id
ScannedBefore(a, b) ==
    LET ga == a.workingPreferences.serviceArea[1].geohash
        gb == b.workingPreferences.serviceArea[1].geohash
    IN  StrLess(ga, gb) \/ (ga = gb /\ a.id < b.id)

\* C26: records of a returned list with the same rounded distance stand in
\* the order in which they were pushed, which is the order of the prefix scan
\* and, within one prefix, of the range query.
C26_TiesKeepInsertionOrder ==
    SearchReturned =>
        /\ \A i, j \in Indices(response.value) :
              (i < j /\ response.value[i].distance = response.value[j].distance)
              => PositionOf(providers, response.value[i].id)
                    < PositionOf(providers, response.value[j].id)
        /\ Len(geohashPrefixes) = 1
           => \A i, j \in Indices(providers) :
                 i < j => ScannedBefore(providers[i], providers[j])

\* two providers at the same distance were returned
C26_Witness ==
    /\ SearchReturned
    /\ Len(response.value) = 2
    /\ response.value[1].distance = response.value[2].distance
    /\ response.value[1].id # response.value[2].id

\* the precision-7 geohash of every location a search is called with
GeohashOfLocation ==
    [c \in { r.location[1] : r \in { q \in SearchRequestInputs :
                                        q.location # None } }
       |-> generateGeohash(c.latitude, c.longitude, 7)]

\* a call that passed the check of its parameters is running or has ended
ValidatedSearch ==
    /\ pc # "idle"
    /\ ~InvalidRequestParameters(request.serviceType, request.location)

\* C27: with the scan radius fixed at 50 km, a search that passed validation
\* issues exactly one range query, and the prefix of that query is a prefix
\* of the precision-7 geohash of the query location.
C27_OneRangeQuery ==
    /\ [](ValidatedSearch
            => /\ Len(geohashPrefixes) = 1
               /\ prefixIdx = 1
               /\ StartsWith(GeohashOfLocation[request.location[1]],
                             geohashPrefixes[1]))
    /\ [][(pc' = "query" /\ pc # "query") => pc = "idle"]_vars
    /\ [][RangeQuery => (pc = "query" /\ pc' # "query")]_vars
    /\ [](SearchReturned => ValidatedSearch)

\* a search at Lagos returned a provider found by its single range query on
\* the prefix "s"
C27_Witness ==
    /\ SearchReturned
    /\ request.location = Some(Lagos)
    /\ geohashPrefixes = << << 24 >> >>
    /\ Len(snapshot) >= 1
    /\ Len(response.value) >= 1

\* the service area stored for a user, None when there is no record or no area
StoredServiceArea(store, userId) ==
    IF store[userId] = None THEN None
    ELSE store[userId][1].workingPreferences.serviceArea

\* C28: an update by the owner that supplies no service area (no working
\* preferences at all, or working preferences with only a schedule) leaves
\* the stored service area of the provider as it was, so the provider can
\* still be found.
C28_AreaKeptWithoutServiceArea ==
    [][\A userId \in UserIds :
          StoredServiceArea(serviceProviders', userId)
             # StoredServiceArea(serviceProviders, userId)
          => ~ \E r \in UpdateRequestInputs :
                  /\ r.userId = userId
                  /\ r.auth = Some(userId)
                  /\ ~HasServiceArea(r.providerData.workingPreferences)
                  /\ updateServiceProviderSettings(r.auth, r.userId,
                                                   r.providerData)]_vars

\* the record was accepted on the service area it carries: its distance is
\* the rounded Haversine distance from the query to that area's centre, and
\* the distance is within that area's radius
ConsistentRecord(location, record) ==
    LET serviceArea == record.workingPreferences.serviceArea
    IN  /\ serviceArea # None
        /\ WellFormed(serviceArea[1])
        /\ record.distance
              = (HaversineTo(location, serviceArea[1]) + 50) \div 100
        /\ HaversineTo(location, serviceArea[1]) <= 100 * serviceArea[1].radius

\* C29: whatever a concurrent writer does to the store while a search runs,
\* every record of the providers array and of a returned list is consistent
\* in itself: distance and inclusion were computed from the service area the
\* record returns.
C29_RecordsSelfConsistent ==
    /\ \A i \in Indices(providers) :
          ConsistentRecord(request.location[1], providers[i])
    /\ SearchReturned
       => \A i \in Indices(response.value) :
             ConsistentRecord(request.location[1], response.value[i])

\* a list was returned with a record whose service area is no longer the
\* stored one: its owner moved or removed the area while the search ran
C29_Witness ==
    /\ SearchReturned
    /\ \E i \in Indices(response.value) :
          /\ serviceProviders[response.value[i].id] # None
          /\ StoredServiceArea(serviceProviders, response.value[i].id)
                # response.value[i].workingPreferences.serviceArea
          /\ response.value[i].distance = 0

====
